---------------------------- MODULE Spec2Model ----------------------------
(***************************************************************************)
(* ApartmentModal (src/src/components/ApartmentModal.tsx): the view state  *)
(* of the modal (current image index, lightbox flag), its pointer and      *)
(* keyboard handlers, the document keydown listener registered by the      *)
(* effect, and the conditional detail lines derived from apartment.type.   *)
(*                                                                         *)
(* React runs the handlers one event at a time.  A render caused by a      *)
(* discrete event (click, keydown) is committed and its effects are run    *)
(* before the next event is dispatched; the effect of a render caused by   *)
(* the parent (new props) may run later, after other events.  An effect    *)
(* that is still pending is always run before the next render starts.      *)
(***************************************************************************)
EXTENDS Naturals, Integers, Sequences, FiniteSets

VARIABLES
    mounted,            \* the component instance is mounted
    apartment,          \* prop: [type, renders]
    onClose,            \* prop: the close callback (an identity)
    currentImageIndex,  \* useState(0), line 27
    lightboxOpen,       \* useState(false), line 28
    listeners,          \* keydown listeners attached to the document, in order
    effectPending,      \* the effect of the last commit has not run yet
    called,             \* callbacks invoked while handling the last event
    lastEvent,          \* the last event and the view state it was handled in
    run                 \* navigation history, used only by SpecNav

vars == <<mounted, apartment, onClose, currentImageIndex, lightboxOpen,
          listeners, effectPending, called, lastEvent, run>>

(***************************************************************************)
(* Bounds and input sets                                                   *)
(***************************************************************************)
MaxLen == 3

Callbacks == {"cb1", "cb2"}

\* apartment.renders: absent (undefined), or a list of image references
NoRenders == [present |-> FALSE, items |-> << >>]

RendersOf(n) == [present |-> TRUE, items |-> [k \in 1..n |-> k]]

RenderLists == {NoRenders} \cup {RendersOf(n) : n \in 0..MaxLen}

\* apartment.type values, as sequences of characters
Types == { <<"S","h","o","p">>,
           <<"O","F","F","I","C","E">>,
           <<"S","t","u","d","i","o">>,
           <<"2"," ","B","e","d">>,
           <<"S","h","o","p","s">> }

Apartments == [type : Types, renders : RenderLists]

(***************************************************************************)
(* String.prototype.toLowerCase, on the characters that occur              *)
(***************************************************************************)
UpperChars == <<"A","B","C","D","E","F","G","H","I","J","K","L","M",
                "N","O","P","Q","R","S","T","U","V","W","X","Y","Z">>

LowerChars == <<"a","b","c","d","e","f","g","h","i","j","k","l","m",
                "n","o","p","q","r","s","t","u","v","w","x","y","z">>

LowerChar(c) ==
    IF \E k \in 1..Len(UpperChars) : UpperChars[k] = c
    THEN LowerChars[CHOOSE k \in 1..Len(UpperChars) : UpperChars[k] = c]
    ELSE c

\* faulty variant: the type is compared without lowering its case
toLowerCaseId(str) == str

toLowerCase(str) == [k \in 1..Len(str) |-> LowerChar(str[k])]

\* lines 81-84
isCommercial(apt) ==
    toLowerCase(apt.type) \in { <<"s","h","o","p">>, <<"o","f","f","i","c","e">> }

isStudio(apt) == toLowerCase(apt.type) = <<"s","t","u","d","i","o">>

\* lines 151-182: the lines of the details section that are rendered
DetailLines(apt) ==
    (IF ~isCommercial(apt) /\ ~isStudio(apt) THEN {"bedrooms"} ELSE {})
    \cup (IF ~isCommercial(apt) THEN {"bathrooms"} ELSE {})
    \cup {"area"}
    \cup (IF ~isCommercial(apt) THEN {"price"} ELSE {})

(***************************************************************************)
(* Rendered elements                                                       *)
(***************************************************************************)
\* apartment.renders?.length is truthy
HasRenders(r) == r.present /\ Len(r.items) > 0

\* line 255
GalleryRendered == HasRenders(apartment.renders)

\* line 281
NavRendered == apartment.renders.present /\ Len(apartment.renders.items) > 1

\* line 343: `lightboxOpen && apartment.renders` (an empty array is truthy)
LightboxRendered == lightboxOpen /\ apartment.renders.present

\* line 348: the lightbox overlay is fixed, inset-0, above the main modal, so
\* while it is rendered a pointer cannot hit the elements under it; the
\* buttons of the panel can still be activated from the keyboard.
PointerReaches == ~LightboxRendered

\* lines 275, 353: renders[currentImageIndex] reads an element of the list
IndexInBounds ==
    currentImageIndex >= 0 /\ currentImageIndex < Len(apartment.renders.items)

(***************************************************************************)
(* Index arithmetic of the four navigation handlers                        *)
(***************************************************************************)
\* faulty variant: wraps one step too late
keyNextOff(i, n) == IF i + 1 > n THEN 0 ELSE i + 1

\* line 62
keyNext(i, n) == (i + 1) % n

\* lines 65-67
keyPrev(i, n) == (i - 1 + n) % n

\* lines 287-289
buttonPrev(i, n) == (i - 1 + n) % n

\* line 299
buttonNext(i, n) == (i + 1) % n

(***************************************************************************)
(* Handlers.  A handler maps the pending view state s = [idx, lb, calls]   *)
(* to the view state after its setState calls and callback invocations.    *)
(***************************************************************************)
View == [idx |-> currentImageIndex, lb |-> lightboxOpen, calls |-> << >>]

\* the values an onKey closure captures from its render (lines 56-69)
Closure(lb, cb, r) == [lightboxOpen |-> lb, onClose |-> cb, renders |-> r]

CurrentClosure == Closure(lightboxOpen, onClose, apartment.renders)

\* faulty variant: Escape ignores the lightbox flag
onEscapeAlwaysClose(c, s) == [s EXCEPT !.calls = Append(@, c.onClose)]

\* lines 57-60
onEscape(c, s) ==
    IF c.lightboxOpen
    THEN [s EXCEPT !.lb = FALSE]
    ELSE [s EXCEPT !.calls = Append(@, c.onClose)]

\* lines 56-69
onKey(c, key, s) ==
    LET s1 == IF key = "Escape" THEN onEscape(c, s) ELSE s
        s2 == IF key = "ArrowRight" /\ HasRenders(c.renders)
              THEN [s1 EXCEPT !.idx = keyNext(@, Len(c.renders.items))]
              ELSE s1
        s3 == IF key = "ArrowLeft" /\ HasRenders(c.renders)
              THEN [s2 EXCEPT !.idx = keyPrev(@, Len(c.renders.items))]
              ELSE s2
    IN s3

\* the document dispatches a keydown to every attached listener, in order
RECURSIVE Dispatch(_, _, _)
Dispatch(ls, key, s) ==
    IF ls = << >> THEN s
    ELSE Dispatch(Tail(ls), key, onKey(Head(ls), key, s))

\* faulty variant: no test that the click landed on the overlay itself
handleBackdropClickAnyTarget(target, currentTarget, s) ==
    IF lightboxOpen
    THEN [s EXCEPT !.lb = FALSE]
    ELSE [s EXCEPT !.calls = Append(@, onClose)]

\* faulty variant: a click on an overlay dismisses both layers
handleBackdropClickBoth(target, currentTarget, s) ==
    IF target = currentTarget
    THEN [s EXCEPT !.lb = FALSE, !.calls = Append(@, onClose)]
    ELSE s

\* lines 74-79
handleBackdropClick(target, currentTarget, s) ==
    IF target = currentTarget
    THEN IF lightboxOpen
         THEN [s EXCEPT !.lb = FALSE]
         ELSE [s EXCEPT !.calls = Append(@, onClose)]
    ELSE s

(***************************************************************************)
(* The keydown effect, lines 55-72                                         *)
(***************************************************************************)
\* line 70
addEventListener(ls, c) == Append(ls, c)

\* faulty variant: the cleanup removes nothing
CleanupKeeps(ls) == ls

\* line 71: the cleanup removes the listener its effect run registered, which
\* is the one registered last
Cleanup(ls) == IF ls = << >> THEN ls ELSE SubSeq(ls, 1, Len(ls) - 1)

\* one run of the effect: the previous run's cleanup, then the body
RunEffect(ls, c) == addEventListener(Cleanup(ls), c)

\* line 72: the dependency array
DepsChanged(lb, cb, r) ==
    cb # onClose \/ lb # lightboxOpen \/ r # apartment.renders

\* a pending effect runs before the next render starts
Flushed == IF effectPending THEN RunEffect(listeners, CurrentClosure) ELSE listeners

\* The commit of a discrete event: the handlers produced view state s.  When
\* the state changed the component re-renders and its effect runs before the
\* event ends; when nothing changed there is no render.
Commit(name, s) ==
    /\ currentImageIndex' = s.idx
    /\ lightboxOpen' = s.lb
    /\ called' = s.calls
    /\ lastEvent' = [name |-> name, lb |-> lightboxOpen, idx |-> currentImageIndex]
    /\ IF s.idx # currentImageIndex \/ s.lb # lightboxOpen
       THEN /\ listeners' = IF DepsChanged(s.lb, onClose, apartment.renders)
                            THEN RunEffect(Flushed, Closure(s.lb, onClose, apartment.renders))
                            ELSE Flushed
            /\ effectPending' = FALSE
       ELSE UNCHANGED <<listeners, effectPending>>
    /\ UNCHANGED <<mounted, apartment, onClose>>

(***************************************************************************)
(* Initial state: mounted, the first effect run has registered onKey       *)
(***************************************************************************)
Init ==
    /\ mounted = TRUE
    /\ apartment \in Apartments
    /\ onClose \in Callbacks
    /\ currentImageIndex = 0
    /\ lightboxOpen = FALSE
    /\ listeners = RunEffect(<< >>, Closure(FALSE, onClose, apartment.renders))
    /\ effectPending = FALSE
    /\ called = << >>
    /\ lastEvent = [name |-> "Mount", lb |-> FALSE, idx |-> 0]
    /\ run = [start |-> 0, ops |-> << >>]

(***************************************************************************)
(* Pointer events.  A click runs the target's own onClick and then bubbles *)
(* to the overlay the target is inside, whose onClick is                   *)
(* handleBackdropClick.                                                    *)
(***************************************************************************)
\* line 99: the click lands on the main overlay itself
ClickBackdropStep ==
    /\ mounted /\ PointerReaches
    /\ Commit("ClickBackdrop", handleBackdropClick("backdrop", "backdrop", View))

\* lines 102-339: text, headings, the link: no onClick of their own
ClickPanelStep ==
    /\ mounted /\ PointerReaches
    /\ Commit("ClickPanel", handleBackdropClick("panel", "backdrop", View))

\* lines 134-140
ClickCloseButtonStep ==
    /\ mounted
    /\ Commit("ClickCloseButton",
              handleBackdropClick("closeButton", "backdrop",
                                  [View EXCEPT !.calls = Append(@, onClose)]))

\* lines 274-280
ClickImageStep ==
    /\ mounted /\ GalleryRendered /\ PointerReaches
    /\ Commit("ClickImage",
              handleBackdropClick("image", "backdrop", [View EXCEPT !.lb = TRUE]))

\* lines 283-294
ClickPrevStep ==
    /\ mounted /\ GalleryRendered /\ NavRendered
    /\ Commit("ClickPrev",
              handleBackdropClick("prevButton", "backdrop",
                  [View EXCEPT !.idx = buttonPrev(@, Len(apartment.renders.items))]))

\* lines 295-304
ClickNextStep ==
    /\ mounted /\ GalleryRendered /\ NavRendered
    /\ Commit("ClickNext",
              handleBackdropClick("nextButton", "backdrop",
                  [View EXCEPT !.idx = buttonNext(@, Len(apartment.renders.items))]))

\* lines 307-312
ClickExpandStep ==
    /\ mounted /\ GalleryRendered
    /\ Commit("ClickExpand",
              handleBackdropClick("expandButton", "backdrop", [View EXCEPT !.lb = TRUE]))

\* line 349: the click lands on the lightbox overlay itself
ClickLightboxBackdropStep ==
    /\ mounted /\ LightboxRendered
    /\ Commit("ClickLightboxBackdrop",
              handleBackdropClick("lightbox", "lightbox", View))

\* lines 351-357: the inner frame and the fullscreen image
ClickLightboxImageStep ==
    /\ mounted /\ LightboxRendered
    /\ Commit("ClickLightboxImage",
              handleBackdropClick("lightboxImage", "lightbox", View))

\* lines 358-363
ClickLightboxCloseStep ==
    /\ mounted /\ LightboxRendered
    /\ Commit("ClickLightboxClose",
              handleBackdropClick("lightboxClose", "lightbox", [View EXCEPT !.lb = FALSE]))

(***************************************************************************)
(* Keyboard events: the document dispatches to the attached listeners      *)
(***************************************************************************)
KeyDownStep(key) ==
    /\ mounted
    /\ Commit(key, Dispatch(listeners, key, View))

(***************************************************************************)
(* The parent                                                              *)
(***************************************************************************)
\* The parent renders the component again with props apt and cb.  The view
\* state is kept (lines 27-28).  When a dependency changed the effect runs
\* again: either before any other event (sync) or later (FlushEffects).
RerenderStep(apt, cb, sync) ==
    /\ mounted
    /\ apartment' = apt
    /\ onClose' = cb
    /\ IF DepsChanged(lightboxOpen, cb, apt.renders)
       THEN IF sync
            THEN /\ listeners' = RunEffect(Flushed, Closure(lightboxOpen, cb, apt.renders))
                 /\ effectPending' = FALSE
            ELSE /\ listeners' = Flushed
                 /\ effectPending' = TRUE
       ELSE /\ listeners' = Flushed
            /\ effectPending' = FALSE
    /\ called' = << >>
    /\ lastEvent' = [name |-> "Rerender", lb |-> lightboxOpen, idx |-> currentImageIndex]
    /\ UNCHANGED <<mounted, currentImageIndex, lightboxOpen>>

\* the pending effect runs: cleanup of the previous run, then lines 56-70
FlushEffectsStep ==
    /\ mounted /\ effectPending
    /\ listeners' = Flushed
    /\ effectPending' = FALSE
    /\ called' = << >>
    /\ lastEvent' = [name |-> "Effect", lb |-> lightboxOpen, idx |-> currentImageIndex]
    /\ UNCHANGED <<mounted, apartment, onClose, currentImageIndex, lightboxOpen>>

\* teardown: the effect's cleanup runs (line 71) and the view state is dropped
UnmountStep ==
    /\ mounted
    /\ mounted' = FALSE
    /\ listeners' = Cleanup(Flushed)
    /\ effectPending' = FALSE
    /\ called' = << >>
    /\ lastEvent' = [name |-> "Unmount", lb |-> lightboxOpen, idx |-> currentImageIndex]
    /\ UNCHANGED <<apartment, onClose, currentImageIndex, lightboxOpen>>

(***************************************************************************)
(* Spec: every event, with the parent free to re-render and unmount        *)
(***************************************************************************)
ClickBackdrop == ClickBackdropStep /\ UNCHANGED run
ClickPanel == ClickPanelStep /\ UNCHANGED run
ClickCloseButton == ClickCloseButtonStep /\ UNCHANGED run
ClickImage == ClickImageStep /\ UNCHANGED run
ClickPrev == ClickPrevStep /\ UNCHANGED run
ClickNext == ClickNextStep /\ UNCHANGED run
ClickExpand == ClickExpandStep /\ UNCHANGED run
ClickLightboxBackdrop == ClickLightboxBackdropStep /\ UNCHANGED run
ClickLightboxImage == ClickLightboxImageStep /\ UNCHANGED run
ClickLightboxClose == ClickLightboxCloseStep /\ UNCHANGED run
KeyEscape == KeyDownStep("Escape") /\ UNCHANGED run
KeyArrowRight == KeyDownStep("ArrowRight") /\ UNCHANGED run
KeyArrowLeft == KeyDownStep("ArrowLeft") /\ UNCHANGED run
KeyOther == KeyDownStep("Enter") /\ UNCHANGED run
Rerender ==
    \E apt \in Apartments, cb \in Callbacks, sync \in BOOLEAN :
        RerenderStep(apt, cb, sync) /\ UNCHANGED run
FlushEffects == FlushEffectsStep /\ UNCHANGED run
Unmount == UnmountStep /\ UNCHANGED run

Next ==
    \/ ClickBackdrop
    \/ ClickPanel
    \/ ClickCloseButton
    \/ ClickImage
    \/ ClickPrev
    \/ ClickNext
    \/ ClickExpand
    \/ ClickLightboxBackdrop
    \/ ClickLightboxImage
    \/ ClickLightboxClose
    \/ KeyEscape
    \/ KeyArrowRight
    \/ KeyArrowLeft
    \/ KeyOther
    \/ Rerender
    \/ FlushEffects
    \/ Unmount

Spec == Init /\ [][Next]_vars

(***************************************************************************)
(* SpecNav: a fixed, non-empty render list and any starting index; only    *)
(* the navigation handlers and the lightbox toggles act.  run records the  *)
(* index a sequence of navigation steps started from and the steps taken.  *)
(***************************************************************************)
Track(op) ==
    IF Len(run.ops) >= MaxLen
    THEN [start |-> currentImageIndex, ops |-> <<op>>]
    ELSE [start |-> run.start, ops |-> Append(run.ops, op)]

NavInit ==
    /\ mounted = TRUE
    /\ apartment \in {a \in Apartments : HasRenders(a.renders)}
    /\ onClose \in Callbacks
    /\ currentImageIndex \in 0..(Len(apartment.renders.items) - 1)
    /\ lightboxOpen = FALSE
    /\ listeners = RunEffect(<< >>, Closure(FALSE, onClose, apartment.renders))
    /\ effectPending = FALSE
    /\ called = << >>
    /\ lastEvent = [name |-> "Mount", lb |-> FALSE, idx |-> currentImageIndex]
    /\ run = [start |-> currentImageIndex, ops |-> << >>]

NavClickNext == ClickNextStep /\ run' = Track("next")
NavClickPrev == ClickPrevStep /\ run' = Track("prev")
NavKeyArrowRight == KeyDownStep("ArrowRight") /\ run' = Track("next")
NavKeyArrowLeft == KeyDownStep("ArrowLeft") /\ run' = Track("prev")
NavClickExpand == ClickExpandStep /\ UNCHANGED run
NavClickLightboxClose == ClickLightboxCloseStep /\ UNCHANGED run

NavNext ==
    \/ NavClickNext
    \/ NavClickPrev
    \/ NavKeyArrowRight
    \/ NavKeyArrowLeft
    \/ NavClickExpand
    \/ NavClickLightboxClose

SpecNav == NavInit /\ [][NavNext]_vars

(***************************************************************************)
(* Claims                                                                  *)
(***************************************************************************)
KeyNames == {"Escape", "ArrowRight", "ArrowLeft", "Enter"}

PanelClicks == {"ClickPanel", "ClickCloseButton", "ClickImage", "ClickPrev",
                "ClickNext", "ClickExpand"}

OnCloseExactlyOnDismissal ==
    (called # << >>) <=>
        \/ lastEvent.name \in {"ClickBackdrop", "ClickCloseButton"}
        \/ (lastEvent.name = "Escape" /\ ~lastEvent.lb)

\* C3: whenever renders is non-empty the current image index is a valid
\* index of renders.
IndexAlwaysInBounds ==
    (mounted /\ HasRenders(apartment.renders)) => IndexInBounds

\* C4 (as claimed): a click on any element inside the dialog panel invokes no
\* callback and does not change the lightbox from open to closed.
PanelClickNeverDismisses ==
    lastEvent.name \in PanelClicks =>
        (called = << >> /\ ~(lastEvent.lb /\ ~lightboxOpen))

\* C4: a click on any element inside the dialog panel other than the header
\* close control invokes no callback, and no click inside the dialog panel
\* changes the lightbox from open to closed.
PanelClickDismissesOnlyByCloseButton ==
    /\ lastEvent.name \in (PanelClicks \ {"ClickCloseButton"}) => called = << >>
    /\ lastEvent.name \in PanelClicks => ~(lastEvent.lb /\ ~lightboxOpen)

PanelClickedUnderOpenLightbox ==
    /\ mounted
    /\ lastEvent.name = "ClickPanel" /\ lastEvent.lb
    /\ lightboxOpen /\ called = << >>

\* C5: a click on the lightbox overlay itself, with the lightbox open, closes
\* the lightbox, invokes no callback and leaves the image index, the props
\* and the mounted component as they were.
LightboxBackdropClosesOnlyLightbox ==
    [][ClickLightboxBackdrop =>
        /\ lightboxOpen /\ ~lightboxOpen'
        /\ called' = << >>
        /\ UNCHANGED <<currentImageIndex, apartment, onClose, mounted>>]_vars

LightboxBackdropClicked ==
    /\ mounted
    /\ lastEvent.name = "ClickLightboxBackdrop" /\ lastEvent.lb
    /\ ~lightboxOpen /\ called = << >>
    /\ currentImageIndex = lastEvent.idx /\ currentImageIndex > 0

\* C6: ArrowRight sets the index to (index + 1) mod N and ArrowLeft to
\* (index - 1 + N) mod N, N >= 1 the length of renders; both leave the index
\* unchanged when renders is empty or absent; neither changes the lightbox
\* flag nor invokes a callback.
ArrowKeysStepCurrentList ==
    LET n == Len(apartment.renders.items)
        has == HasRenders(apartment.renders)
    IN /\ lastEvent.name = "ArrowRight" =>
             currentImageIndex = IF has THEN (lastEvent.idx + 1) % n ELSE lastEvent.idx
       /\ lastEvent.name = "ArrowLeft" =>
             currentImageIndex = IF has THEN (lastEvent.idx - 1 + n) % n ELSE lastEvent.idx
       /\ lastEvent.name \in {"ArrowRight", "ArrowLeft"} =>
             (lightboxOpen = lastEvent.lb /\ called = << >>)

\* C7: on a render list of length N >= 1, N next steps return the index to
\* where it started, N previous steps do too, and a next step followed by a
\* previous step does too, whether the steps are button clicks or key presses.
NavigationIsCyclic ==
    LET n == Len(apartment.renders.items)
    IN /\ run.ops = [k \in 1..n |-> "next"] => currentImageIndex = run.start
       /\ run.ops = [k \in 1..n |-> "prev"] => currentImageIndex = run.start
       /\ run.ops = <<"next", "prev">> => currentImageIndex = run.start

WentAroundForward ==
    /\ Len(apartment.renders.items) = MaxLen
    /\ run.ops = [k \in 1..MaxLen |-> "next"]
    /\ run.start = 1 /\ currentImageIndex = 1

\* C8: at most one keydown listener of the component is attached to the
\* document at any time, and none is attached after unmount.
AtMostOneListener ==
    /\ Len(listeners) <= 1
    /\ ~mounted => listeners = << >>

ListenerReregistered ==
    /\ mounted
    /\ lastEvent.name = "Effect"
    /\ Len(listeners) = 1 /\ listeners[1] = CurrentClosure

\* C9: the bedroom line is rendered iff the unit is residential, the bathroom
\* line and the price line iff it is not commercial, and the area line
\* always; commercial is type shop or office, studio is type studio, both
\* compared ignoring case, and residential is everything else.
SameLetter(a, b) ==
    \/ a = b
    \/ \E k \in 1..Len(UpperChars) : {a, b} = {UpperChars[k], LowerChars[k]}

EqualIgnoringCase(s, t) ==
    Len(s) = Len(t) /\ \A k \in 1..Len(s) : SameLetter(s[k], t[k])

Classification(type) ==
    IF \/ EqualIgnoringCase(type, <<"s","h","o","p">>)
       \/ EqualIgnoringCase(type, <<"o","f","f","i","c","e">>)
    THEN "commercial"
    ELSE IF EqualIgnoringCase(type, <<"s","t","u","d","i","o">>)
         THEN "studio"
         ELSE "residential"

DetailLinesFollowClassification ==
    LET cls == Classification(apartment.type)
        shown == DetailLines(apartment)
    IN /\ ("bedrooms" \in shown) <=> (cls = "residential")
       /\ ("bathrooms" \in shown) <=> (cls # "commercial")
       /\ ("price" \in shown) <=> (cls # "commercial")
       /\ "area" \in shown

UpperCaseOfficeShown ==
    /\ mounted /\ lastEvent.name = "Rerender"
    /\ apartment.type = <<"O","F","F","I","C","E">>
    /\ DetailLines(apartment) = {"area"}

\* C10: every keydown is handled by a listener whose captured lightbox flag,
\* onClose callback and renders list are the component's current ones, so
\* that Escape invokes a callback only with the lightbox closed and closes
\* the lightbox only when it is open.
KeydownNeverStale ==
    [][(KeyEscape \/ KeyArrowRight \/ KeyArrowLeft) =>
        /\ \A k \in 1..Len(listeners) : listeners[k] = CurrentClosure
        /\ KeyEscape => /\ called' # << >> => ~lightboxOpen
                        /\ called' = << >> => lightboxOpen]_vars

=============================================================================
